---- MODULE Spec2Model ----
(***************************************************************************)
(* Model of the yogo detection data pipeline: the Metrics aggregator and    *)
(* its two grid converters (utils.py), the dataset indexer and splitter     *)
(* (dataloader.py) and the visualizer's box selection (utils.py).           *)
(*                                                                          *)
(* Floating point values of the arrays are fixed-point integers in          *)
(* hundredths (1.0 is 100).  Class logits and class probabilities are exact *)
(* rationals <<numerator, denominator>>; exp() is tabulated to 3 decimals.  *)
(* A tensor is [shape, data] with data in logical row-major order, and      *)
(* permute / reshape / transpose / indexing are index arithmetic on it.     *)
(* An optional value (Python None or a value) is <<>> or <<value>>.         *)
(***************************************************************************)
EXTENDS Integers, Sequences, FiniteSets, TLC

VARIABLES
    \* ---- Metrics object (utils.py) and its caller
    confusion_preds,   \* self.confusion_preds: None or the stacked probability rows
    confusion_labels,  \* self.confusion_labels: None or the stacked label-id rows
    mAP,               \* self.mAP: the MeanAveragePrecision accumulator
    confusion,         \* self.confusion: the ConfusionMatrix accumulator
    outputs,           \* the caller's prediction array last passed to update()
    labels,            \* the caller's label array last passed to update()
    retval,            \* what the last call returned, None unless it was compute()
    prevRet,           \* what the call before it returned, None unless both were compute()
    lastOp,            \* the last Metrics call made
    sinceReset,        \* the batches passed to update() since construction or reset()
    nUpdates,          \* update() calls made so far
    grid,              \* <<Sy, Sx>>, the grid size of the network
    \* ---- one call of each grid converter on one batch
    batch_preds,       \* format_for_*'s batch_preds argument (changed in place)
    batch_labels,      \* format_for_*'s batch_labels argument
    mAP_out,           \* what format_for_mAP returned
    conf_out,          \* what format_for_confusion returned
    fmtInput,          \* the batch as it was handed to the converters
    \* ---- one call of get_datasets (dataloader.py)
    split_fractions,   \* the description's dataset_split_fractions, in 1/FracDen
    full_len,          \* len(full_dataset)
    split_sizes,       \* the computed split sizes
    subsets,           \* the returned subsets: the sample indices of each
    splitErr,          \* the exception get_datasets ended with
    splitPc,           \* "call" before the call, "done" after it
    \* ---- one construction of ObjectDetectionDataset (dataloader.py)
    extensions,        \* the extensions argument: None or a tuple of extensions
    is_valid_file,     \* the is_valid_file argument: None or a predicate
    imageDir,          \* image_folder_path.glob("*"): the file names, in listing order
    labelDir,          \* the label folder: file name -> content
    samples,           \* make_dataset's local list samples
    self_samples,      \* self.samples, None while the attribute is not set
    cursor,            \* files of the listing examined so far
    opened,            \* the label file names load_labels_from_image_name opened
    dsErr,             \* the exception the construction ended with
    dsPc,              \* "new", "indexing", "ready" or "failed"
    \* ---- one call of draw_rects (utils.py)
    img_shape,         \* img.shape
    rects,             \* the rects argument: [kind |-> "tensor" or "list", val |-> ...]
    thresh,            \* the thresh argument: None or a confidence
    drawn,             \* the rectangles drawn on the returned image, None without one
    drawErr,           \* the exception draw_rects ended with
    drawPc             \* "call" before the call, "done" after it

metricsVars == <<confusion_preds, confusion_labels, mAP, confusion, outputs, labels,
                 retval, prevRet, lastOp, sinceReset, nUpdates, grid>>
formatVars == <<batch_preds, batch_labels, mAP_out, conf_out, fmtInput>>
splitVars == <<split_fractions, full_len, split_sizes, subsets, splitErr, splitPc>>
datasetVars == <<extensions, is_valid_file, imageDir, labelDir, samples, self_samples,
                 cursor, opened, dsErr, dsPc>>
drawVars == <<img_shape, rects, thresh, drawn, drawErr, drawPc>>
vars == <<metricsVars, formatVars, splitVars, datasetVars, drawVars>>

\* ------------------------------------------------------------------ bounds
MaxBatch == 2      \* images per batch: 1..MaxBatch
MaxCells == 4      \* grid shapes Sy x Sx with Sy*Sx <= MaxCells
MaxUpdates == 2    \* update() calls in one run
MaxSamples == 5    \* samples of the full dataset: 0..MaxSamples
FracDen == 10      \* split fractions are multiples of 1/FracDen
MaxFiles == 2      \* files in the image folder: 0..MaxFiles
MaxRects == 2      \* entries of a box list handed to draw_rects: 0..MaxRects

\* default number of classes of Metrics.__init__
NumClasses == 4

None == <<>>
Some(x) == <<x>>

\* ------------------------------------------------------------- arithmetic
\* the float n as a fixed-point number of hundredths
Fixed(n) == n * 100

\* Tensor.long(): float -> int64 truncates toward zero
Long(v) == IF v >= 0 THEN v \div Fixed(1) ELSE -((-v) \div Fixed(1))

\* rationals
Rat(n) == <<n, 1>>
RatLess(p, q) == p[1] * q[2] < q[1] * p[2]

RECURSIVE SumSeq(_)
SumSeq(s) == IF s = <<>> THEN 0 ELSE Head(s) + SumSeq(Tail(s))

RECURSIVE ProdSeq(_)
ProdSeq(s) == IF s = <<>> THEN 1 ELSE Head(s) * ProdSeq(Tail(s))

\* exp(x) for the integer logits of the model, in thousandths
ExpTable == <<1000, 2718, 7389, 20086>>
Exp(q) == ExpTable[q[1] + 1]

\* torch.softmax over one vector of logits
Softmax(v) ==
    LET e == [j \in 1..Len(v) |-> Exp(v[j])] \o <<>>
        total == SumSeq(e)
    IN  [j \in 1..Len(v) |-> <<e[j], total>>] \o <<>>

\* torch.argmax over one vector: the index (from 0) of the first maximum
Argmax(v) ==
    CHOOSE j \in 0..(Len(v) - 1) :
        /\ \A k \in 0..(Len(v) - 1) : ~RatLess(v[j + 1], v[k + 1])
        /\ \A k \in 0..(j - 1) : RatLess(v[k + 1], v[j + 1])

\* ---------------------------------------------------------------- tensors
Tensor(shape, data) == [shape |-> shape, data |-> data \o <<>>]

\* t[i0, i1, i2, i3] of a 4-d tensor
At4(t, i0, i1, i2, i3) ==
    t.data[((i0 * t.shape[2] + i1) * t.shape[3] + i2) * t.shape[4] + i3 + 1]

\* the index tuples of a 4-d shape
Index4(shape) ==
    (0..shape[1] - 1) \X (0..shape[2] - 1) \X (0..shape[3] - 1) \X (0..shape[4] - 1)

\* a 4-d tensor from its elements, f a function on Index4(shape)
Build4(shape, f) ==
    Tensor(shape, [k \in 1..ProdSeq(shape) |->
        LET r == k - 1
        IN  f[<<r \div (shape[4] * shape[3] * shape[2]),
                (r \div (shape[4] * shape[3])) % shape[2],
                (r \div shape[4]) % shape[3],
                r % shape[4]>>]])

\* t.permute(1, 0, 2, 3)
Permute1023(t) ==
    LET s == t.shape
        n == <<s[2], s[1], s[3], s[4]>>
    IN  Tensor(n, [k \in 1..ProdSeq(n) |->
            LET r  == k - 1
                i3 == r % n[4]
                i2 == (r \div n[4]) % n[3]
                i1 == (r \div (n[4] * n[3])) % n[2]
                i0 == r \div (n[4] * n[3] * n[2])
            IN  At4(t, i1, i0, i2, i3)])

\* t[k, ...]
SelectLead(t, k) ==
    LET inner == ProdSeq(Tail(t.shape))
    IN  Tensor(Tail(t.shape), SubSeq(t.data, k * inner + 1, (k + 1) * inner))

\* t[k:, ...]
SliceLead(t, k) ==
    LET inner == ProdSeq(Tail(t.shape))
        kept  == IF t.shape[1] > k THEN t.shape[1] - k ELSE 0
    IN  Tensor(<<kept>> \o Tail(t.shape),
               SubSeq(t.data, k * inner + 1, Len(t.data)))

\* t.reshape(rows, cols) / t.view(rows, cols); rows = -1 is inferred
Reshape2(t, rows, cols) ==
    Tensor(<<IF rows = -1 THEN Len(t.data) \div cols ELSE rows, cols>>, t.data)

\* m.T of a 2-d tensor
Transpose2(m) ==
    LET r == m.shape[1]
        c == m.shape[2]
    IN  Tensor(<<c, r>>, [k \in 1..(r * c) |->
            m.data[((k - 1) % r) * c + ((k - 1) \div r) + 1]])

\* the rows of a 2-d tensor, as a sequence of vectors
Rows(m) ==
    [i \in 1..m.shape[1] |-> SubSeq(m.data, (i - 1) * m.shape[2] + 1, i * m.shape[2])] \o <<>>

\* rows[mask]: the rows whose mask entry is true, in order
RECURSIVE BoolIndex(_, _)
BoolIndex(rows, mask) ==
    IF rows = <<>> THEN <<>>
    ELSE (IF Head(mask) THEN <<Head(rows)>> ELSE <<>>) \o BoolIndex(Tail(rows), Tail(mask))

\* torch.vstack((a, b)) of two row sequences
VStack(a, b) == a \o b

\* ------------------------------------------------- Metrics.format_for_mAP
\* one image's label record and prediction record
EmptyLabelRecord == [boxes |-> <<>>, labels |-> <<>>]
EmptyPredRecord == [boxes |-> <<>>, labels |-> <<>>, scores |-> <<>>]

\* the cells listed column by column (x * Sy + y) instead of row by row
RowOrderedColumnMajor(img, Sy, Sx) ==
    LET rows == Rows(Transpose2(Reshape2(img, -1, Sy * Sx)))
    IN  [r \in 1..(Sy * Sx) |-> rows[((r - 1) % Sy) * Sx + ((r - 1) \div Sy) + 1]]

RowOrdered(img, Sy, Sx) == Rows(Transpose2(Reshape2(img, -1, Sy * Sx)))

\* a mask of the cells whose flag is not 0, instead of those whose flag is 1
OccupiedMaskNonZero(row_ordered_img_labels) ==
    [r \in 1..Len(row_ordered_img_labels) |-> row_ordered_img_labels[r][1] # 0]

OccupiedMask(row_ordered_img_labels) ==
    [r \in 1..Len(row_ordered_img_labels) |-> row_ordered_img_labels[r][1] = Fixed(1)]

ImageForMAP(img_preds, img_labels, Sy, Sx) ==
    IF \A k \in 1..(Sy * Sx) : SelectLead(img_labels, 0).data[k] = 0
    THEN [label |-> EmptyLabelRecord, pred |-> EmptyPredRecord]
    ELSE LET row_ordered_img_preds  == RowOrdered(img_preds, Sy, Sx)
             row_ordered_img_labels == RowOrdered(img_labels, Sy, Sx)
             mask == OccupiedMask(row_ordered_img_labels)
             lrows == BoolIndex(row_ordered_img_labels, mask)
             prows == BoolIndex(row_ordered_img_preds, mask)
         IN  [label |-> [boxes  |-> [i \in 1..Len(lrows) |-> SubSeq(lrows[i], 2, 5)],
                         labels |-> [i \in 1..Len(lrows) |-> lrows[i][6]]],
              pred  |-> [boxes  |-> [i \in 1..Len(prows) |-> SubSeq(prows[i], 1, 4)],
                         scores |-> [i \in 1..Len(prows) |-> prows[i][5]],
                         labels |-> [i \in 1..Len(prows) |->
                                        Argmax(SubSeq(prows[i], 6, Len(prows[i])))]]]

\* returns <<preds, labels>>: one record per image, in batch order
format_for_mAP(bp, bl) ==
    LET bs == bp.shape[1]
        Sy == bp.shape[3]
        Sx == bp.shape[4]
        per == [b \in 1..bs |->
                   ImageForMAP(SelectLead(bp, b - 1), SelectLead(bl, b - 1), Sy, Sx)]
    IN  <<[b \in 1..bs |-> per[b].pred], [b \in 1..bs |-> per[b].label]>>

\* ------------------------------------------- Metrics.format_for_confusion
\* batch_preds[:, 5:, :, :] = torch.softmax(batch_preds[:, 5:, :, :], dim=1)
SoftmaxInPlace(bp) ==
    LET s == bp.shape
        logits(b, y, x) == [j \in 1..(s[2] - 5) |-> At4(bp, b, 4 + j, y, x)]
        \* the softmax of every cell, by b * Sy * Sx + y * Sx + x
        probs == [c \in 1..(s[1] * s[3] * s[4]) |->
                    Softmax(logits((c - 1) \div (s[3] * s[4]),
                                   ((c - 1) \div s[4]) % s[3],
                                   (c - 1) % s[4]))] \o <<>>
    IN  Tensor(s, [k \in 1..Len(bp.data) |->
            LET r  == k - 1
                x  == r % s[4]
                y  == (r \div s[4]) % s[3]
                ch == (r \div (s[4] * s[3])) % s[2]
                b  == r \div (s[4] * s[3] * s[2])
            IN  IF ch >= 5 THEN probs[b * s[3] * s[4] + y * s[4] + x + 1][ch - 4]
                ELSE bp.data[k]])

\* the class channels reshaped without the permute that brings them first
ConfusionPredsNoPermute(bp) ==
    LET bs == bp.shape[1]
        Sy == bp.shape[3]
        Sx == bp.shape[4]
        f(b, ch, y, x) == At4(bp, b, ch + 5, y, x)
    IN  Rows(Transpose2(Reshape2(Build4(<<bs, bp.shape[2] - 5, Sy, Sx>>,
                   [i \in Index4(<<bs, bp.shape[2] - 5, Sy, Sx>>) |-> f(i[1], i[2], i[3], i[4])]),
                                 -1, bs * Sx * Sy)))

ConfusionPreds(bp) ==
    LET bs == bp.shape[1]
        Sy == bp.shape[3]
        Sx == bp.shape[4]
    IN  Rows(Transpose2(Reshape2(SliceLead(Permute1023(bp), 5), -1, bs * Sx * Sy)))

ConfusionLabels(bl) ==
    LET bs == bl.shape[1]
        Sy == bl.shape[3]
        Sx == bl.shape[4]
        m  == Transpose2(Reshape2(SelectLead(Permute1023(bl), 5), 1, bs * Sx * Sy))
    IN  Rows(Tensor(m.shape, [k \in 1..Len(m.data) |-> Long(m.data[k])]))

\* returns [preds, labels, array]: the two outputs and batch_preds as it is left
\* a converter that normalises a copy and leaves the caller's array alone
format_for_confusion_on_copy(bp, bl) ==
    LET after == SoftmaxInPlace(bp)
    IN  [preds |-> ConfusionPreds(after), labels |-> ConfusionLabels(bl), array |-> bp]

format_for_confusion(bp, bl) ==
    LET after == SoftmaxInPlace(bp)
    IN  [preds |-> ConfusionPreds(after), labels |-> ConfusionLabels(bl), array |-> after]

\* ------------------------------------------------------ the input batches
\* the grid shapes <<Sy, Sx>> of the model
GridShapes == {s \in (1..MaxCells) \X (1..MaxCells) : s[1] * s[2] <= MaxCells}

\* A label array [bs, 6, Sy, Sx]: channel 0 the presence flag flags[b][cell]
\* (0, 1 or 2), channels 1-4 a box that differs from cell to cell, channel 5
\* the class id as a float.
MkLabels(bs, Sy, Sx, flags) ==
    LET cell(b, y, x) == b * Sy * Sx + y * Sx + x
        f(b, ch, y, x) ==
            IF ch = 0 THEN Fixed(flags[b + 1][y * Sx + x + 1])
            ELSE IF ch = 5 THEN Fixed((cell(b, y, x) + 1) % NumClasses)
            ELSE 4 * cell(b, y, x) + ch
    IN  Build4(<<bs, 6, Sy, Sx>>,
               [i \in Index4(<<bs, 6, Sy, Sx>>) |-> f(i[1], i[2], i[3], i[4])])

\* A prediction array [bs, 5 + NumClasses, Sy, Sx]: channels 0-3 a box and
\* channel 4 a confidence that differ from cell to cell, channels 5.. the
\* class logits, a rotation by shift of 0..NumClasses-1 (no ties).
MkPreds(bs, Sy, Sx, shift) ==
    LET cell(b, y, x) == b * Sy * Sx + y * Sx + x
        f(b, ch, y, x) ==
            IF ch >= 5 THEN Rat((ch - 5 + cell(b, y, x) + shift) % NumClasses)
            ELSE IF ch = 4 THEN (13 * (cell(b, y, x) + 1)) % 100
            ELSE 4 * cell(b, y, x) + ch + 3
    IN  Build4(<<bs, 5 + NumClasses, Sy, Sx>>,
               [i \in Index4(<<bs, 5 + NumClasses, Sy, Sx>>) |-> f(i[1], i[2], i[3], i[4])])

\* presence flags of one image: every 0/1 assignment
FreeFlags(cells) == [1..cells -> {0, 1}]

\* presence flags of one image: none, all, first cell only, last cell only,
\* and no cell flagged 1 but the flags not all 0
SparseFlags(cells) ==
    { [c \in 1..cells |-> 0],
      [c \in 1..cells |-> 1],
      [c \in 1..cells |-> IF c = 1 THEN 1 ELSE 0],
      [c \in 1..cells |-> IF c = cells THEN 1 ELSE 0],
      [c \in 1..cells |-> IF c = 1 THEN 2 ELSE 0] }

\* the rotation of the class logits of a batch, from its flags
ShiftOf(flags) == SumSeq([b \in 1..Len(flags) |-> SumSeq(flags[b])]) % NumClasses

\* a batch: its two arrays, from the shape and the presence flags
Batch(g, flags) ==
    [preds  |-> MkPreds(Len(flags), g[1], g[2], ShiftOf(flags)),
     labels |-> MkLabels(Len(flags), g[1], g[2], flags)]

\* the batches a converter is applied to: the first image's flags free, the
\* other images' sparse
FormatFlags(bs, cells) ==
    { [b \in 1..bs |-> IF b = 1 THEN p ELSE q[b - 1]] :
        p \in FreeFlags(cells) \cup SparseFlags(cells),
        q \in [1..(bs - 1) -> SparseFlags(cells)] }

\* the batches update() is called with: the images in turn full and empty, or
\* the images in turn with the first cell occupied and with no flag 1 but the
\* first flag 2
UpdateFlags(bs, cells) ==
    { [b \in 1..bs |-> [c \in 1..cells |-> b % 2]],
      [b \in 1..bs |-> [c \in 1..cells |-> IF c = 1 THEN 1 + ((b + 1) % 2) ELSE 0]] }

\* ------------------------------------------- the converters, one call each
FormatInit ==
    \E g \in GridShapes, bs \in 1..MaxBatch :
        \E flags \in FormatFlags(bs, g[1] * g[2]) :
            /\ fmtInput = [grid |-> g, flags |-> flags]
            /\ batch_preds = Batch(g, flags).preds
            /\ batch_labels = Batch(g, flags).labels
            /\ mAP_out = None
            /\ conf_out = None

\* preds, labels = Metrics.format_for_mAP(batch_preds, batch_labels)
CallFormatForMAP ==
    /\ mAP_out = None
    /\ mAP_out' = Some(format_for_mAP(batch_preds, batch_labels))
    /\ UNCHANGED <<batch_preds, batch_labels, conf_out, fmtInput>>

\* preds, labels = Metrics.format_for_confusion(batch_preds, batch_labels)
CallFormatForConfusion ==
    /\ conf_out = None
    /\ LET r == format_for_confusion(batch_preds, batch_labels)
       IN  /\ conf_out' = Some(<<r.preds, r.labels>>)
           /\ batch_preds' = r.array
    /\ UNCHANGED <<batch_labels, mAP_out, fmtInput>>

FormatNext == CallFormatForMAP \/ CallFormatForConfusion

\* ------------------------------------------------------------ Metrics
\* torchmetrics MeanAveragePrecision: the per-image records it has been fed
MAPEmpty == [preds |-> <<>>, target |-> <<>>]
MAPUpdate(acc, preds, target) ==
    [preds |-> acc.preds \o preds, target |-> acc.target \o target]

\* its summary, a function of the accumulated records alone
MAPCompute(acc) ==
    [images       |-> Len(acc.target),
     groundtruths |-> SumSeq([i \in 1..Len(acc.target) |-> Len(acc.target[i].boxes)]),
     detections   |-> SumSeq([i \in 1..Len(acc.preds) |-> Len(acc.preds[i].boxes)]),
     class_hits   |-> SumSeq([i \in 1..Len(acc.preds) |->
                        Cardinality({j \in 1..Len(acc.preds[i].labels) :
                            acc.preds[i].labels[j] = Long(acc.target[i].labels[j])})])]

\* torchmetrics ConfusionMatrix: counts by (label id, most probable class)
ConfusionEmpty == [t \in 0..(NumClasses - 1) |-> [p \in 0..(NumClasses - 1) |-> 0]]
ConfusionUpdate(mat, preds, target) ==
    LET pairs == [k \in 1..Len(preds) |-> <<target[k][1], Argmax(preds[k])>>] \o <<>>
    IN  [t \in 0..(NumClasses - 1) |-> [p \in 0..(NumClasses - 1) |->
            mat[t][p] + Cardinality({k \in 1..Len(pairs) : pairs[k] = <<t, p>>})]]

\* Metrics.__init__
MetricsNew ==
    [confusion_preds  |-> None,
     confusion_labels |-> None,
     mAP              |-> MAPEmpty,
     confusion        |-> ConfusionEmpty]

\* the Metrics object of the run
self ==
    [confusion_preds  |-> confusion_preds,
     confusion_labels |-> confusion_labels,
     mAP              |-> mAP,
     confusion        |-> confusion]

\* the new rows stacked above the stored rows instead of under them
StackRowsAbove(stored, new) ==
    IF stored = None THEN Some(new) ELSE Some(VStack(new, stored[1]))

\* self.confusion_preds / self.confusion_labels after an update: the new rows
\* alone the first time, stacked under the stored rows afterwards
StackRows(stored, new) ==
    IF stored = None THEN Some(new) ELSE Some(VStack(stored[1], new))

\* Metrics.update(preds, labels): the object afterwards, and the caller's
\* prediction array as format_for_confusion leaves it
update(m, preds, lbls) ==
    LET forMAP == format_for_mAP(preds, lbls)
        forCon == format_for_confusion(preds, lbls)
    IN  [self |-> [confusion_preds  |-> StackRows(m.confusion_preds, forCon.preds),
                   confusion_labels |-> StackRows(m.confusion_labels, forCon.labels),
                   mAP              |-> MAPUpdate(m.mAP, forMAP[1], forMAP[2]),
                   confusion        |-> ConfusionUpdate(m.confusion, forCon.preds,
                                                        forCon.labels)],
         preds |-> forCon.array]

\* a compute() that clears the object once it has the result
compute_and_clear(m) ==
    [ret  |-> <<MAPCompute(m.mAP), <<m.confusion_preds, m.confusion_labels>>>>,
     self |-> MetricsNew]

\* Metrics.compute(): what it returns, and the object afterwards
compute(m) ==
    [ret  |-> <<MAPCompute(m.mAP), <<m.confusion_preds, m.confusion_labels>>>>,
     self |-> m]

\* a reset() that clears the confusion rows and leaves the mAP accumulator
reset_rows_only(m) ==
    [confusion_preds  |-> None,
     confusion_labels |-> None,
     mAP              |-> m.mAP,
     confusion        |-> ConfusionEmpty]

\* Metrics.reset(): the object afterwards
reset(m) ==
    [confusion_preds  |-> None,
     confusion_labels |-> None,
     mAP              |-> MAPEmpty,
     confusion        |-> ConfusionEmpty]

SetSelf(m) ==
    /\ confusion_preds' = m.confusion_preds
    /\ confusion_labels' = m.confusion_labels
    /\ mAP' = m.mAP
    /\ confusion' = m.confusion

NoTensor == Tensor(<<0, 0, 0, 0>>, <<>>)

MetricsInit ==
    /\ grid \in GridShapes
    /\ confusion_preds = MetricsNew.confusion_preds
    /\ confusion_labels = MetricsNew.confusion_labels
    /\ mAP = MetricsNew.mAP
    /\ confusion = MetricsNew.confusion
    /\ outputs = NoTensor
    /\ labels = NoTensor
    /\ retval = None
    /\ prevRet = None
    /\ lastOp = "init"
    /\ sinceReset = <<>>
    /\ nUpdates = 0

\* outputs = net(imgs); metrics.update(outputs, labels)
Update ==
    /\ nUpdates < MaxUpdates
    /\ \E bs \in 1..MaxBatch : \E flags \in UpdateFlags(bs, grid[1] * grid[2]) :
        LET b == Batch(grid, flags)
            r == update(self, b.preds, b.labels)
        IN  /\ SetSelf(r.self)
            /\ outputs' = r.preds
            /\ labels' = b.labels
            /\ sinceReset' = Append(sinceReset, flags)
    /\ nUpdates' = nUpdates + 1
    /\ lastOp' = "update"
    /\ retval' = None
    /\ prevRet' = None
    /\ UNCHANGED grid

\* mAP, confusion_data = metrics.compute()
Compute ==
    /\ LET r == compute(self)
       IN  /\ retval' = Some(r.ret)
           /\ SetSelf(r.self)
    /\ prevRet' = IF lastOp = "compute" THEN retval ELSE None
    /\ lastOp' = "compute"
    /\ UNCHANGED <<outputs, labels, sinceReset, nUpdates, grid>>

\* metrics.reset(), called right after compute()
Reset ==
    /\ lastOp = "compute"
    /\ SetSelf(reset(self))
    /\ sinceReset' = <<>>
    /\ lastOp' = "reset"
    /\ retval' = None
    /\ prevRet' = None
    /\ UNCHANGED <<outputs, labels, nUpdates, grid>>

MetricsNext == Update \/ Compute \/ Reset

\* ------------------------------------------------------------ get_datasets
\* int(x) of the float x = num/den: truncation toward zero
IntTrunc(num, den) == IF num >= 0 THEN num \div den ELSE -((-num) \div den)

\* load_dataset_description: sum(split_fractions.values()) == 1
FractionsSumToOne(fr) == fr["train"] + fr["val"] + fr["test"] = FracDen

\* the test size computed from its fraction like the other two
SplitSizesAllFromFractions(fr, N) ==
    [d \in {"train", "val", "test"} |-> IntTrunc(fr[d] * N, FracDen)]

\* dataset_sizes, test_dataset_size and split_sizes of get_datasets
SplitSizes(fr, N) ==
    LET dataset_sizes == [d \in {"train", "val"} |-> IntTrunc(fr[d] * N, FracDen)]
        test == N - (dataset_sizes["train"] + dataset_sizes["val"])
    IN  [d \in {"train", "val", "test"} |->
            IF d = "test" THEN test ELSE dataset_sizes[d]]

\* the assertion with sz >= 0 for sz > 0
SizesValidNonNegative(sz, N) ==
    /\ \A d \in DOMAIN sz : sz[d] >= 0
    /\ sz["train"] + sz["val"] + sz["test"] = N

\* the condition get_datasets asserts
SizesValid(sz, N) ==
    /\ \A d \in DOMAIN sz : sz[d] > 0
    /\ sz["train"] + sz["val"] + sz["test"] = N

\* the orders torch.randperm(n) can return
RECURSIVE Perms(_)
Perms(S) ==
    IF S = {} THEN {<<>>}
    ELSE UNION {{<<x>> \o p : p \in Perms(S \ {x})} : x \in S}

\* torch.utils.data.random_split(dataset, lengths) with the permutation drawn:
\* consecutive slices of it, one per length
RandomSplit(perm, lengths) ==
    [k \in 1..Len(lengths) |->
        LET offset == SumSeq(SubSeq(lengths, 1, k))
        IN  SubSeq(perm, offset - lengths[k] + 1, offset)]

SplitInit ==
    /\ full_len \in 0..MaxSamples
    /\ split_fractions \in
         { [d \in {"train", "val", "test"} |->
              IF d = "train" THEN t ELSE IF d = "val" THEN v ELSE FracDen - t - v + x] :
              t \in -1..(FracDen + 1), v \in -1..(FracDen + 1), x \in {0, 1} }
    /\ split_sizes = None
    /\ subsets = None
    /\ splitErr = "none"
    /\ splitPc = "call"

\* get_datasets(dataset_description_file, batch_size)
GetDatasets ==
    /\ splitPc = "call"
    /\ splitPc' = "done"
    /\ IF ~FractionsSumToOne(split_fractions)
       THEN /\ splitErr' = "ValueError"
            /\ UNCHANGED <<split_sizes, subsets>>
       ELSE LET sz == SplitSizes(split_fractions, full_len)
            IN  /\ split_sizes' = Some(sz)
                /\ IF ~SizesValid(sz, full_len)
                   THEN /\ splitErr' = "AssertionError"
                        /\ UNCHANGED subsets
                   ELSE /\ UNCHANGED splitErr
                        /\ \E perm \in Perms(0..(full_len - 1)) :
                             LET parts == RandomSplit(perm,
                                              <<sz["train"], sz["val"], sz["test"]>>)
                             IN  subsets' = Some([d \in {"train", "val", "test"} |->
                                     IF d = "train" THEN parts[1]
                                     ELSE IF d = "val" THEN parts[2] ELSE parts[3]])
    /\ UNCHANGED <<split_fractions, full_len>>

SplitNext == GetDatasets

SplitIdle ==
    /\ full_len = 0
    /\ split_fractions = [d \in {"train", "val", "test"} |-> 0]
    /\ split_sizes = None
    /\ subsets = None
    /\ splitErr = "none"
    /\ splitPc = "idle"

\* -------------------------------------------------- ObjectDetectionDataset
\* Strings are sequences of characters.

\* s.endswith(suf)
EndsWith(s, suf) ==
    /\ Len(suf) <= Len(s)
    /\ SubSeq(s, Len(s) - Len(suf) + 1, Len(s)) = suf

\* s.startswith(pre)
StartsWith(s, pre) ==
    /\ Len(pre) <= Len(s)
    /\ SubSeq(s, 1, Len(pre)) = pre

\* s.lower(), for the letters of the model
LowerChar(c) ==
    CASE c = "B" -> "b" [] c = "P" -> "p" [] c = "N" -> "n" [] c = "G" -> "g"
      [] OTHER -> c
Lower(s) == [k \in 1..Len(s) |-> LowerChar(s[k])]

\* s.rfind("."): the index (from 0) of the last ".", -1 without one
RFindDot(s) ==
    IF \E k \in 1..Len(s) : s[k] = "."
    THEN (CHOOSE k \in 1..Len(s) : s[k] = "." /\ \A j \in (k + 1)..Len(s) : s[j] # ".") - 1
    ELSE -1

\* pathlib's PurePath.suffix of a file name
PathSuffix(name) ==
    LET i == RFindDot(name)
    IN  IF 0 < i /\ i < Len(name) - 1 THEN SubSeq(name, i + 1, Len(name)) ELSE <<>>

\* s.replace(old, new): every non-overlapping occurrence, left to right; with
\* old empty, new goes before every character and after the last
RECURSIVE Replace(_, _, _)
Replace(s, old, new) ==
    IF old = <<>>
    THEN IF s = <<>> THEN new ELSE new \o <<Head(s)>> \o Replace(Tail(s), old, new)
    ELSE IF s = <<>> THEN <<>>
    ELSE IF StartsWith(s, old)
         THEN new \o Replace(SubSeq(s, Len(old) + 1, Len(s)), old, new)
         ELSE <<Head(s)>> \o Replace(Tail(s), old, new)

CsvExt == <<".", "c", "s", "v">>
ImageFolder == <<"i", "m", "g">>

\* str(image_folder_path / name)
PathStr(name) == ImageFolder \o <<"/">> \o name

\* label_filename of load_labels_from_image_name
LabelFilename(name) == Replace(name, PathSuffix(name), CsvExt)

\* torchvision has_file_allowed_extension(filename, extensions)
HasFileAllowedExtension(filename, exts) ==
    \E k \in 1..Len(exts) : EndsWith(Lower(filename), exts[k])

\* the predicates a caller passes as is_valid_file
PredAccepts(pred, path) ==
    CASE pred = "any" -> TRUE
      [] pred = "not_txt" -> ~EndsWith(path, <<".", "t", "x", "t">>)

\* is_valid_file(x) as make_dataset ends up with it
IsValidFile(exts, pred, path) ==
    IF exts # None THEN HasFileAllowedExtension(path, exts[1])
    ELSE PredAccepts(pred[1], path)

\* the check with only the both-absent half
ConfigErrorBothNoneOnly(exts, pred) == exts = None /\ pred = None

\* the condition under which make_dataset raises its ValueError
ConfigError(exts, pred) ==
    LET both_none == exts = None /\ pred = None
        both_something == exts # None /\ pred # None
    IN  both_none \/ both_something

\* float(v) of a field of a label file: <<>> when v is no number
FloatOf(v) ==
    CASE v = "0" -> <<0>> [] v = "1" -> <<Fixed(1)>> [] v = "0.5" -> <<50>>
      [] v = "0.2" -> <<20>> [] OTHER -> <<>>

\* the rows of a label file from the first on: the labels read, or the error
RECURSIVE ReadRows(_, _)
ReadRows(rows, acc) ==
    IF rows = <<>> THEN [err |-> "none", labels |-> acc]
    ELSE LET row == Head(rows)
         IN  IF Len(row) # 5 THEN [err |-> "AssertionError", labels |-> acc]
             ELSE IF \E k \in 1..5 : FloatOf(row[k]) = <<>>
                  THEN [err |-> "ValueError:float", labels |-> acc]
                  ELSE ReadRows(Tail(rows),
                                Append(acc, [k \in 1..5 |-> FloatOf(row[k])[1]]))

\* load_labels_from_image_name(image_path) in the label folder dir
LoadLabels(name, dir) ==
    LET label_filename == LabelFilename(name)
    IN  IF label_filename \notin DOMAIN dir
        THEN [err |-> "FileNotFoundError", labels |-> <<>>, file |-> label_filename]
        ELSE LET f == dir[label_filename]
                 rows == IF f.has_header /\ f.rows # <<>> THEN Tail(f.rows) ELSE f.rows
                 r == ReadRows(rows, <<>>)
             IN  \* csv.Sniffer().has_header finds no delimiter in an empty file
                 IF f.rows = <<>>
                 THEN [err |-> "csv.Error", labels |-> <<>>, file |-> label_filename]
                 ELSE [err |-> r.err, labels |-> r.labels, file |-> label_filename]

\* ---- the folders of the model
ImageNames ==
    { <<"a", ".", "p", "n", "g">>,
      <<"b", ".", "p", "n", "g">>,
      <<"a", ".", "p", "n", "g", "_", "1", ".", "p", "n", "g">>,
      <<"c", ".", "t", "x", "t">>,
      <<"B", ".", "P", "N", "G">>,
      <<"d">> }

\* the stem of a file name: the name without its final extension
Stem(name) == SubSeq(name, 1, Len(name) - Len(PathSuffix(name)))

HeaderRow == <<"class", "xc", "yc", "w", "h">>
GoodRow == <<"1", "0.5", "0.5", "0.2", "0.2">>
LabelFiles ==
    [good     |-> [has_header |-> TRUE,  rows |-> <<HeaderRow, GoodRow>>],
     noheader |-> [has_header |-> FALSE, rows |-> <<GoodRow, <<"0", "0.2", "0.5", "0.2", "1">>>>],
     short    |-> [has_header |-> TRUE,  rows |-> <<HeaderRow, GoodRow, <<"1", "0.5", "0.5", "0.2">>>>],
     text     |-> [has_header |-> FALSE, rows |-> <<GoodRow, <<"1", "0.5", "x", "0.2", "0.2">>>>],
     empty    |-> [has_header |-> FALSE, rows |-> <<>>]]

\* a good label file for every image name, by its stem
GoodLabelDir == [n \in {Stem(i) \o CsvExt : i \in ImageNames} |-> LabelFiles.good]

\* the label folders of the model: the good one, or it with one file removed,
\* one file replaced, or one file added under the name the code looks for
LabelDirs ==
    {GoodLabelDir}
    \cup { [n \in DOMAIN GoodLabelDir \ {x} |-> GoodLabelDir[n]] : x \in DOMAIN GoodLabelDir }
    \cup { [n \in DOMAIN GoodLabelDir |-> IF n = x THEN LabelFiles[k] ELSE GoodLabelDir[n]] :
             x \in DOMAIN GoodLabelDir, k \in {"noheader", "short", "text", "empty"} }
    \cup { [n \in DOMAIN GoodLabelDir \cup {LabelFilename(i)} |->
              IF n \in DOMAIN GoodLabelDir THEN GoodLabelDir[n] ELSE LabelFiles.noheader] :
             i \in ImageNames }

\* the listings of the image folder: distinct names in any order
RECURSIVE Listings(_, _)
Listings(S, n) ==
    IF n = 0 THEN {<<>>}
    ELSE {<<>>} \cup UNION {{<<x>> \o l : l \in Listings(S \ {x}, n - 1)} : x \in S}

DatasetInit ==
    /\ extensions \in {None, Some(<<<<"p", "n", "g">>>>)}
    /\ is_valid_file \in {None, Some("any"), Some("not_txt")}
    /\ imageDir \in Listings(ImageNames, MaxFiles)
    /\ labelDir \in LabelDirs
    /\ samples = <<>>
    /\ self_samples = None
    /\ cursor = 0
    /\ opened = <<>>
    /\ dsErr = "none"
    /\ dsPc = "new"

\* ObjectDetectionDataset(...): __init__ up to make_dataset's argument check
Construct ==
    /\ dsPc = "new"
    /\ IF ConfigError(extensions, is_valid_file)
       THEN dsErr' = "ValueError:config" /\ dsPc' = "failed"
       ELSE dsPc' = "indexing" /\ UNCHANGED dsErr
    /\ UNCHANGED <<extensions, is_valid_file, imageDir, labelDir, samples, self_samples,
                   cursor, opened>>

\* one round of make_dataset's loop over the listing
IndexFile ==
    /\ dsPc = "indexing"
    /\ cursor < Len(imageDir)
    /\ cursor' = cursor + 1
    /\ LET img_file_path == imageDir[cursor + 1]
       IN  IF IsValidFile(extensions, is_valid_file, PathStr(img_file_path))
           THEN LET r == LoadLabels(img_file_path, labelDir)
                IN  /\ opened' = Append(opened, r.file)
                    /\ IF r.err # "none"
                       THEN dsErr' = r.err /\ dsPc' = "failed" /\ UNCHANGED samples
                       ELSE /\ samples' = Append(samples, <<PathStr(img_file_path), r.labels>>)
                            /\ UNCHANGED <<dsErr, dsPc>>
           ELSE UNCHANGED <<opened, samples, dsErr, dsPc>>
    /\ UNCHANGED <<extensions, is_valid_file, imageDir, labelDir, self_samples>>

\* make_dataset returns and __init__ stores the list
StoreSamples ==
    /\ dsPc = "indexing"
    /\ cursor = Len(imageDir)
    /\ self_samples' = Some(samples)
    /\ dsPc' = "ready"
    /\ UNCHANGED <<extensions, is_valid_file, imageDir, labelDir, samples, cursor,
                   opened, dsErr>>

DatasetNext == Construct \/ IndexFile \/ StoreSamples

DatasetIdle ==
    /\ extensions = None
    /\ is_valid_file = None
    /\ imageDir = <<>>
    /\ labelDir = GoodLabelDir
    /\ samples = <<>>
    /\ self_samples = None
    /\ cursor = 0
    /\ opened = <<>>
    /\ dsErr = "none"
    /\ dsPc = "idle"

\* -------------------------------------------------------------- draw_rects
\* a filter that keeps the cells at the threshold too
KeepRowAtLeast(r, th) == r[5] >= th

\* the filter of draw_rects on one cell's channel vector: r[4] > thresh
KeepRow(r, th) == r[5] > th

\* the cells of a [pred_dim, Sy, Sx] prediction array that draw_rects keeps:
\* [r for r in rects.reshape(pred_dim, Sx * Sy).T if r[4] > thresh]

CellsAbove(t, th) ==
    LET rows == Rows(Transpose2(Reshape2(t, t.shape[1], t.shape[3] * t.shape[2])))
    IN  BoolIndex(rows, [k \in 1..Len(rows) |-> KeepRow(rows[k], th)])

\* one entry of formatted_rects, for a box (xc, yc, w, h) in hundredths
FormatRect(r, w, h) ==
    <<IntTrunc(w * (2 * r[1] - r[3]), 2 * Fixed(1)),
      IntTrunc(h * (2 * r[2] - r[4]), 2 * Fixed(1)),
      IntTrunc(w * (2 * r[1] + r[3]), 2 * Fixed(1)),
      IntTrunc(h * (2 * r[2] + r[4]), 2 * Fixed(1))>>

\* draw_rects(img, rects, thresh): the exception, or the rectangles drawn
draw_rects(shape, rs, th) ==
    IF Len(shape) # 2 THEN [err |-> "AssertionError", drawn |-> None]
    ELSE LET h == shape[1]
             w == shape[2]
         IN  IF rs.kind = "tensor"
             THEN LET t == IF th = None THEN 0 ELSE th[1]
                      kept == CellsAbove(rs.val, t)
                  IN  [err |-> "none",
                       drawn |-> Some([k \in 1..Len(kept) |-> FormatRect(kept[k], w, h)])]
             ELSE IF th # None THEN [err |-> "ValueError", drawn |-> None]
             ELSE LET kept == [k \in 1..Len(rs.val) |-> Tail(rs.val[k])]
                  IN  [err |-> "none",
                       drawn |-> Some([k \in 1..Len(kept) |-> FormatRect(kept[k], w, h)])]

\* a [5 + NumClasses, Sy, Sx] prediction array with the given confidences
DrawTensor(Sy, Sx, confs) ==
    LET f(b, ch, y, x) ==
            LET c == y * Sx + x
            IN  IF ch >= 5 THEN Rat((ch - 5 + c) % NumClasses)
                ELSE IF ch = 4 THEN confs[c + 1]
                ELSE IF ch = 0 THEN 20 + 15 * c
                ELSE IF ch = 1 THEN 50
                ELSE IF ch = 2 THEN 20
                ELSE 10 + 2 * c
    IN  SelectLead(Build4(<<1, 5 + NumClasses, Sy, Sx>>,
                          [i \in Index4(<<1, 5 + NumClasses, Sy, Sx>>) |-> f(i[1], i[2], i[3], i[4])]), 0)

\* the (class, xc, yc, w, h) entries of a hand-written box list
BoxTuples == {<<0, 50, 50, 20, 20>>, <<1, 30, 70, 20, 40>>}

RECURSIVE SeqsUpTo(_, _)
SeqsUpTo(S, n) ==
    IF n = 0 THEN {<<>>}
    ELSE {<<>>} \cup {<<x>> \o l : x \in S, l \in SeqsUpTo(S, n - 1)}

DrawInit ==
    /\ img_shape \in {<<100, 100>>, <<40, 60>>, <<1, 100, 100>>}
    /\ thresh \in {None, Some(0), Some(10), Some(50)}
    /\ \/ \E g \in GridShapes : \E confs \in [1..(g[1] * g[2]) -> {0, 10, 50}] :
             rects = [kind |-> "tensor", val |-> DrawTensor(g[1], g[2], confs)]
       \/ \E l \in SeqsUpTo(BoxTuples, MaxRects) :
             rects = [kind |-> "list", val |-> l]
    /\ drawn = None
    /\ drawErr = "none"
    /\ drawPc = "call"

\* image = draw_rects(img, rects, thresh)
DrawRects ==
    /\ drawPc = "call"
    /\ LET r == draw_rects(img_shape, rects, thresh)
       IN  drawn' = r.drawn /\ drawErr' = r.err
    /\ drawPc' = "done"
    /\ UNCHANGED <<img_shape, rects, thresh>>

DrawNext == DrawRects

DrawIdle ==
    /\ img_shape = <<1, 1>>
    /\ rects = [kind |-> "list", val |-> <<>>]
    /\ thresh = None
    /\ drawn = None
    /\ drawErr = "none"
    /\ drawPc = "idle"

MetricsIdle ==
    /\ grid = <<1, 1>>
    /\ confusion_preds = None
    /\ confusion_labels = None
    /\ mAP = MAPEmpty
    /\ confusion = ConfusionEmpty
    /\ outputs = NoTensor
    /\ labels = NoTensor
    /\ retval = None
    /\ prevRet = None
    /\ lastOp = "idle"
    /\ sinceReset = <<>>
    /\ nUpdates = 0

FormatIdle ==
    /\ fmtInput = [grid |-> <<1, 1>>, flags |-> <<>>]
    /\ batch_preds = NoTensor
    /\ batch_labels = NoTensor
    /\ mAP_out = None
    /\ conf_out = None

\* ---------------------------------------------------------- specifications
Init == MetricsInit /\ FormatIdle /\ SplitIdle /\ DatasetIdle /\ DrawIdle
Next == MetricsNext /\ UNCHANGED <<formatVars, splitVars, datasetVars, drawVars>>
Spec == Init /\ [][Next]_vars

InitFormat == FormatInit /\ MetricsIdle /\ SplitIdle /\ DatasetIdle /\ DrawIdle
NextFormat == FormatNext /\ UNCHANGED <<metricsVars, splitVars, datasetVars, drawVars>>
SpecFormat == InitFormat /\ [][NextFormat]_vars

InitSplit == SplitInit /\ MetricsIdle /\ FormatIdle /\ DatasetIdle /\ DrawIdle
NextSplit == SplitNext /\ UNCHANGED <<metricsVars, formatVars, datasetVars, drawVars>>
SpecSplit == InitSplit /\ [][NextSplit]_vars

InitDataset == DatasetInit /\ MetricsIdle /\ FormatIdle /\ SplitIdle /\ DrawIdle
NextDataset == DatasetNext /\ UNCHANGED <<metricsVars, formatVars, splitVars, drawVars>>
SpecDataset == InitDataset /\ [][NextDataset]_vars

InitDraw == DrawInit /\ MetricsIdle /\ FormatIdle /\ SplitIdle /\ DatasetIdle
NextDraw == DrawNext /\ UNCHANGED <<metricsVars, formatVars, splitVars, datasetVars>>
SpecDraw == InitDraw /\ [][NextDraw]_vars

\* =================================================================== claims
\* What the claims speak of, read off the arrays cell by cell: image b and
\* cell c = y * Sx + x (both from 0) of a batch of grid size <<Sy, Sx>>.
CellAt(t, b, ch, c) == At4(t, b, ch, c \div t.shape[4], c % t.shape[4])
NumCells(t) == t.shape[3] * t.shape[4]
Occupied(bl, b) == {c \in 0..(NumCells(bl) - 1) : CellAt(bl, b, 0, c) = Fixed(1)}

\* the i-th occupied cell of image b, in ascending order of y * Sx + x
IthOccupied(bl, b, i) ==
    CHOOSE c \in Occupied(bl, b) : Cardinality({d \in Occupied(bl, b) : d < c}) = i - 1

LabelBoxAt(bl, b, c) == [ch \in 1..4 |-> CellAt(bl, b, ch, c)]
PredBoxAt(bp, b, c) == [ch \in 1..4 |-> CellAt(bp, b, ch - 1, c)]
LogitsAt(bp, b, c) == [j \in 1..(bp.shape[2] - 5) |-> CellAt(bp, b, 4 + j, c)]
MaxLogitAt(bp, b, c) ==
    CHOOSE j \in 0..(bp.shape[2] - 6) :
        \A k \in 0..(bp.shape[2] - 6) :
            ~RatLess(CellAt(bp, b, 5 + j, c), CellAt(bp, b, 5 + k, c))

\* the batch the converters were handed, before any change in place
FmtBatch == Batch(fmtInput.grid, fmtInput.flags)

\* C1: format_for_mAP returns one label record and one prediction record per
\* image, and for every image the label boxes, label classes, prediction
\* boxes, prediction scores and prediction classes all have as many entries as
\* the image has cells with presence flag 1 (none when there is no such cell).
C1_RecordLengths ==
    mAP_out # None =>
        LET preds == mAP_out[1][1]
            lbls  == mAP_out[1][2]
            bs    == FmtBatch.labels.shape[1]
        IN  /\ Len(preds) = bs
            /\ Len(lbls) = bs
            /\ \A b \in 1..bs :
                 LET n == Cardinality(Occupied(FmtBatch.labels, b - 1))
                 IN  /\ Len(lbls[b].boxes) = n
                     /\ Len(lbls[b].labels) = n
                     /\ Len(preds[b].boxes) = n
                     /\ Len(preds[b].scores) = n
                     /\ Len(preds[b].labels) = n

\* C1 witness: a decoded batch of two images, the first with two occupied
\* cells, the second with none though one of its flags is not 0
C1_Witness ==
    /\ mAP_out # None
    /\ Len(fmtInput.flags) = 2
    /\ Cardinality(Occupied(FmtBatch.labels, 0)) = 2
    /\ Cardinality(Occupied(FmtBatch.labels, 1)) = 0
    /\ \E c \in 1..Len(fmtInput.flags[2]) : fmtInput.flags[2][c] = 2
    /\ mAP_out[1][1][2].boxes = <<>>

\* C2: entry i of an image's prediction record and entry i of its label record
\* both come from the image's i-th occupied cell in ascending row-major order
\* (box, score, most probable class; box, class), and no box of a cell whose
\* flag is not 1 is in a record.
C2_SameCell ==
    mAP_out # None =>
        LET preds == mAP_out[1][1]
            lbls  == mAP_out[1][2]
            bp    == FmtBatch.preds
            bl    == FmtBatch.labels
        IN  \A b \in 1..Len(lbls) : \A i \in 1..Len(lbls[b].boxes) :
                LET c == IthOccupied(bl, b - 1, i)
                IN  /\ lbls[b].boxes[i] = LabelBoxAt(bl, b - 1, c)
                    /\ lbls[b].labels[i] = CellAt(bl, b - 1, 5, c)
                    /\ preds[b].boxes[i] = PredBoxAt(bp, b - 1, c)
                    /\ preds[b].scores[i] = CellAt(bp, b - 1, 4, c)
                    /\ preds[b].labels[i] = MaxLogitAt(bp, b - 1, c)
                    /\ \A d \in (0..(NumCells(bl) - 1)) \ Occupied(bl, b - 1) :
                         /\ lbls[b].boxes[i] # LabelBoxAt(bl, b - 1, d)
                         /\ preds[b].boxes[i] # PredBoxAt(bp, b - 1, d)

\* C2 witness: a decoded 2 x 2 image whose occupied cells are (0, 1) and
\* (1, 0), which row-major and column-major order list differently
C2_Witness ==
    /\ mAP_out # None
    /\ fmtInput.grid = <<2, 2>>
    /\ fmtInput.flags[1] = <<0, 1, 1, 0>>
    /\ Len(mAP_out[1][1][1].boxes) = 2

\* C3: format_for_confusion returns bs*Sy*Sx probability vectors and as many
\* label ids, and row k = b*Sy*Sx + y*Sx + x of either is the softmax of the
\* class logits, resp. the class id, of cell (y, x) of image b.
C3_ConfusionRows ==
    conf_out # None =>
        LET probs == conf_out[1][1]
            ids   == conf_out[1][2]
            bp    == FmtBatch.preds
            bl    == FmtBatch.labels
            n     == bl.shape[1] * NumCells(bl)
        IN  /\ Len(probs) = n
            /\ Len(ids) = n
            /\ \A b \in 0..(bl.shape[1] - 1) : \A c \in 0..(NumCells(bl) - 1) :
                 LET k == b * NumCells(bl) + c + 1
                 IN  /\ probs[k] = Softmax(LogitsAt(bp, b, c))
                     /\ ids[k] = <<Long(CellAt(bl, b, 5, c))>>

\* C3 witness: the rows of a batch of two 2 x 2 images, one of them without
\* any occupied cell
C3_Witness ==
    /\ conf_out # None
    /\ fmtInput.grid = <<2, 2>>
    /\ Len(fmtInput.flags) = 2
    /\ Occupied(FmtBatch.labels, 1) = {}
    /\ Occupied(FmtBatch.labels, 0) # {}
    /\ Len(conf_out[1][1]) = 8

\* ---- the aggregator
\* the object a fresh Metrics becomes when fed the batches of the given flags
RECURSIVE Replay(_, _)
Replay(m, batches) ==
    IF batches = <<>> THEN m
    ELSE LET b == Batch(grid, Head(batches))
         IN  Replay(update(m, b.preds, b.labels).self, Tail(batches))

\* the confusion rows of one batch, cell by cell
RowsOfBatch(bp, bl) ==
    [probs |-> [k \in 1..(bl.shape[1] * NumCells(bl)) |->
                   Softmax(LogitsAt(bp, (k - 1) \div NumCells(bl), (k - 1) % NumCells(bl)))],
     ids   |-> [k \in 1..(bl.shape[1] * NumCells(bl)) |->
                   <<Long(CellAt(bl, (k - 1) \div NumCells(bl), 5, (k - 1) % NumCells(bl)))>>]]

StoredRows(opt) == IF opt = None THEN <<>> ELSE opt[1]

\* C4: right after reset() the aggregator is as a freshly constructed one (no
\* confusion rows, an empty mAP accumulator), and whatever compute() returns is
\* what a fresh aggregator fed only the updates since the last reset returns.
C4_ResetIsFresh ==
    /\ lastOp = "reset" => self = MetricsNew
    /\ lastOp = "compute" =>
         retval = Some(compute(Replay(MetricsNew, sinceReset)).ret)

\* C4 witness: update, compute, reset, update, compute
C4_Witness ==
    /\ lastOp = "compute"
    /\ nUpdates = 2
    /\ Len(sinceReset) = 1
    /\ retval[1][1].images = Len(sinceReset[1])

\* C5: a compute() leaves the stored rows, the mAP accumulator and the
\* confusion matrix as they were, and a compute() right after a compute()
\* returns what that one returned.
C5_ComputeIsPure ==
    [][lastOp' = "compute" =>
        /\ self' = self
        /\ lastOp = "compute" => retval' = retval]_vars

\* C5 witness: two compute() calls in a row on an aggregator that holds rows
C5_Witness ==
    /\ lastOp = "compute"
    /\ prevRet # None
    /\ prevRet = retval
    /\ confusion_preds # None
    /\ mAP.preds # <<>>

\* the rows of the batches of the given flags, in order
RECURSIVE RowsOfBatches(_)
RowsOfBatches(batches) ==
    IF batches = <<>> THEN [probs |-> <<>>, ids |-> <<>>]
    ELSE LET b == Batch(grid, Head(batches))
             first == RowsOfBatch(b.preds, b.labels)
             rest == RowsOfBatches(Tail(batches))
         IN  [probs |-> first.probs \o rest.probs, ids |-> first.ids \o rest.ids]

\* C10: as long as no reset() has been called, the stored probability rows and
\* label rows are the rows of the batches passed to update(), cell by cell and
\* in call order (so both hold the sum of bs*Sy*Sx rows and row j of both is
\* of the same cell); and an update() keeps the rows stored before it, in
\* their order, at the top of both arrays.
C10_RowsAppended ==
    /\ [](nUpdates = Len(sinceReset) =>
            /\ StoredRows(confusion_preds) = RowsOfBatches(sinceReset).probs
            /\ StoredRows(confusion_labels) = RowsOfBatches(sinceReset).ids
            /\ Len(StoredRows(confusion_preds)) =
                 SumSeq([i \in 1..Len(sinceReset) |->
                            Len(sinceReset[i]) * grid[1] * grid[2]]))
    /\ [][lastOp' = "update" /\ nUpdates' = nUpdates + 1 =>
            /\ SubSeq(StoredRows(confusion_preds'), 1, Len(StoredRows(confusion_preds)))
                 = StoredRows(confusion_preds)
            /\ SubSeq(StoredRows(confusion_labels'), 1, Len(StoredRows(confusion_labels)))
                 = StoredRows(confusion_labels)]_vars

\* C10 witness: two updates without a reset, of batches of different sizes
C10_Witness ==
    /\ lastOp = "update"
    /\ Len(sinceReset) = 2
    /\ Len(sinceReset[1]) # Len(sinceReset[2])
    /\ Len(StoredRows(confusion_preds)) =
         (Len(sinceReset[1]) + Len(sinceReset[2])) * grid[1] * grid[2]
    /\ grid[1] * grid[2] > 1

\* ---- the splitter
SizeSum(sz) == sz["train"] + sz["val"] + sz["test"]

\* C6, as stated: for every fraction mapping that sums to 1 and every dataset
\* size N the three computed sizes sum to N and are all > 0.
C6_AsStated ==
    splitPc = "done" /\ FractionsSumToOne(split_fractions) =>
        /\ split_sizes # None
        /\ SizeSum(split_sizes[1]) = full_len
        /\ \A d \in {"train", "val", "test"} : split_sizes[1][d] > 0

\* C6, amended: for every fraction mapping that sums to 1 and every dataset
\* size N the three computed sizes sum to N, the train and val sizes are
\* floor(frac * N) for fractions >= 0, and the three sizes are all > 0 exactly
\* when get_datasets returns instead of failing its assertion.
C6_SizesSumToN ==
    splitPc = "done" /\ FractionsSumToOne(split_fractions) =>
        /\ split_sizes # None
        /\ SizeSum(split_sizes[1]) = full_len
        /\ \A d \in {"train", "val"} :
             split_fractions[d] >= 0 =>
                 split_sizes[1][d] = (split_fractions[d] * full_len) \div FracDen
        /\ split_sizes[1]["test"] =
             full_len - split_sizes[1]["train"] - split_sizes[1]["val"]
        /\ (splitErr = "none") <=>
             (\A d \in {"train", "val", "test"} : split_sizes[1][d] > 0)

\* C6 witness: a split of the largest dataset that get_datasets returns, with
\* a train size that is a proper floor
C6_Witness ==
    /\ splitPc = "done"
    /\ FractionsSumToOne(split_fractions)
    /\ splitErr = "none"
    /\ full_len = MaxSamples
    /\ (split_fractions["train"] * full_len) % FracDen # 0
    /\ SizeSum(split_sizes[1]) = full_len

\* the sample indices of a returned subset, as a set
IndexSet(sub) == {sub[i] : i \in 1..Len(sub)}

\* C7: get_datasets fails its assertion and returns nothing whenever a computed
\* size is <= 0; and when it returns, the three subsets have the computed
\* sizes, share no index and hold each index 0..N-1 exactly once.
C7_FailOrPartition ==
    splitPc = "done" /\ split_sizes # None =>
        /\ (\E d \in {"train", "val", "test"} : split_sizes[1][d] <= 0) =>
              splitErr = "AssertionError" /\ subsets = None
        /\ subsets # None =>
              LET sub == subsets[1]
              IN  /\ splitErr = "none"
                  /\ \A d \in {"train", "val", "test"} :
                       /\ Len(sub[d]) = split_sizes[1][d]
                       /\ Cardinality(IndexSet(sub[d])) = Len(sub[d])
                  /\ IndexSet(sub["train"]) \cap IndexSet(sub["val"]) = {}
                  /\ IndexSet(sub["train"]) \cap IndexSet(sub["test"]) = {}
                  /\ IndexSet(sub["val"]) \cap IndexSet(sub["test"]) = {}
                  /\ IndexSet(sub["train"]) \cup IndexSet(sub["val"])
                       \cup IndexSet(sub["test"]) = 0..(full_len - 1)

\* C7 witness: a dataset of three or more samples whose val size comes out 0
\* while the other two are positive: the call fails and returns nothing
C7_Witness ==
    /\ splitPc = "done"
    /\ split_sizes # None
    /\ full_len >= 3
    /\ split_sizes[1]["val"] = 0
    /\ split_sizes[1]["train"] > 0
    /\ split_sizes[1]["test"] > 0
    /\ splitErr = "AssertionError"
    /\ subsets = None

\* ---- the indexer
\* C8: the construction ends with make_dataset's ValueError exactly when the
\* extensions and the predicate are both given or both absent; it is raised
\* before any file of the listing is examined and before any label file is
\* opened, and no sample list is stored.
C8_ConfigError ==
    /\ dsPc \in {"indexing", "ready", "failed"} =>
         (dsErr = "ValueError:config"
            <=> ((extensions = None) <=> (is_valid_file = None)))
    /\ dsErr = "ValueError:config" =>
         /\ dsPc = "failed"
         /\ cursor = 0
         /\ opened = <<>>
         /\ samples = <<>>
         /\ self_samples = None

\* C8 witness: both arguments given, a folder with files in it, the error
C8_Witness ==
    /\ dsErr = "ValueError:config"
    /\ extensions # None
    /\ is_valid_file # None
    /\ Len(imageDir) = MaxFiles
    /\ cursor = 0

\* ---- the visualizer
\* the cells of a [pred_dim, Sy, Sx] array whose confidence is above th, in
\* ascending order of y * Sx + x, as the rectangles drawn for them
RECURSIVE RectsAbove(_, _, _, _, _)
RectsAbove(t, th, c, w, h) ==
    LET n == t.shape[2] * t.shape[3]
        box == [ch \in 1..4 |-> t.data[(ch - 1) * n + c + 1]]
    IN  IF c >= n THEN <<>>
        ELSE (IF t.data[4 * n + c + 1] > th THEN <<FormatRect(box, w, h)>> ELSE <<>>)
             \o RectsAbove(t, th, c + 1, w, h)

\* C9: with a box list and a threshold draw_rects raises and returns no image
\* (its ValueError, on a 2-d image); with a prediction array it never raises
\* the ValueError and, on a 2-d image, draws exactly the cells whose confidence
\* is greater than the threshold, 0 when none is given.
C9_Threshold ==
    drawPc = "done" =>
        /\ rects.kind = "list" /\ thresh # None =>
             /\ drawn = None
             /\ drawErr # "none"
             /\ Len(img_shape) = 2 => drawErr = "ValueError"
        /\ rects.kind = "tensor" =>
             /\ drawErr # "ValueError"
             /\ Len(img_shape) = 2 =>
                  /\ drawErr = "none"
                  /\ drawn = Some(RectsAbove(rects.val,
                                             IF thresh = None THEN 0 ELSE thresh[1],
                                             0, img_shape[2], img_shape[1]))

\* C9 witness: a prediction array with a cell at the threshold and a cell
\* above it; only the second is drawn
C9_Witness ==
    /\ drawPc = "done"
    /\ rects.kind = "tensor"
    /\ thresh = Some(10)
    /\ rects.val.shape = <<5 + NumClasses, 1, 2>>
    /\ rects.val.data[9] = 10
    /\ rects.val.data[10] = 50
    /\ drawn # None
    /\ Len(drawn[1]) = 1

\* ---- the caller's arrays across update()
\* the batch of the last update() call, as the caller built it
LastBatch == Batch(grid, sinceReset[Len(sinceReset)])

\* the prediction records the last update() added to the mAP accumulator
LastMAPPreds(bs) == SubSeq(mAP.preds, Len(mAP.preds) - bs + 1, Len(mAP.preds))

\* the class channels of one cell
ClassValuesAt(bp, b, c) == [j \in 1..(bp.shape[2] - 5) |-> CellAt(bp, b, 4 + j, c)]

\* p is the softmax of the logits: every entry is exp(logit) over the sum of
\* the exps, and the entries, on one denominator, sum to 1
IsSoftmaxOf(p, logits) ==
    LET total == SumSeq([j \in 1..Len(logits) |-> Exp(logits[j])])
    IN  /\ Len(p) = Len(logits)
        /\ \A j \in 1..Len(p) :
             /\ p[j][2] > 0
             /\ p[j][2] = p[1][2]
             /\ p[j][1] * total = Exp(logits[j]) * p[j][2]
        /\ SumSeq([j \in 1..Len(p) |-> p[j][1]]) = p[1][2]

\* C11: right after update(preds, labels) the caller's prediction array
\* differs from the one passed only in channels 5 and above, where every
\* cell's logits have become their softmax (summing to 1); channels 0-4 and
\* the whole label array are as passed; and the prediction records this update
\* gave the mAP accumulator are decoded from the array as it was passed.
C11_InPlaceFrame ==
    lastOp = "update" =>
        LET before == LastBatch
            bs     == before.preds.shape[1]
            cells  == 0..(NumCells(before.preds) - 1)
            added  == LastMAPPreds(bs)
        IN  /\ outputs.shape = before.preds.shape
            /\ labels = before.labels
            /\ \A b \in 0..(bs - 1) : \A c \in cells :
                 /\ \A ch \in 0..4 :
                      CellAt(outputs, b, ch, c) = CellAt(before.preds, b, ch, c)
                 /\ IsSoftmaxOf(ClassValuesAt(outputs, b, c),
                                LogitsAt(before.preds, b, c))
            /\ \A b \in 0..(bs - 1) :
                 LET n == Cardinality(Occupied(before.labels, b))
                 IN  /\ Len(added[b + 1].boxes) = n
                     /\ Len(added[b + 1].scores) = n
                     /\ Len(added[b + 1].labels) = n
                     /\ \A i \in 1..n :
                          LET c == IthOccupied(before.labels, b, i)
                          IN  /\ added[b + 1].boxes[i] = PredBoxAt(before.preds, b, c)
                              /\ added[b + 1].scores[i] = CellAt(before.preds, b, 4, c)
                              /\ added[b + 1].labels[i] = MaxLogitAt(before.preds, b, c)

\* C11 witness: an update of two images on a grid of several cells, one image
\* with an occupied cell, after which the caller's array is no longer the one
\* passed
C11_Witness ==
    /\ lastOp = "update"
    /\ Len(sinceReset) > 0
    /\ Len(sinceReset[Len(sinceReset)]) = 2
    /\ grid[1] * grid[2] > 1
    /\ outputs # LastBatch.preds
    /\ \E b \in 0..1 : Occupied(labels, b) # {}
    /\ mAP.preds[Len(mAP.preds)].boxes # <<>> \/ mAP.preds[Len(mAP.preds) - 1].boxes # <<>>

\* ---- indexing of the dataset
\* the positions of the listing whose file is_valid_file accepts
AcceptedAt(k) == IsValidFile(extensions, is_valid_file, PathStr(imageDir[k]))

\* the rows of a label file after its header, when it has one
DataRows(f) == IF f.has_header /\ f.rows # <<>> THEN Tail(f.rows) ELSE f.rows

\* the label file name that matches an image name: same stem, extension .csv
MatchingLabel == [n \in ImageNames |-> Stem(n) \o CsvExt]

\* the label file name the code opens for an image name
OpenedLabel == [n \in ImageNames |-> LabelFilename(n)]

\* the label file called n is absent from the label folder
Absent(n) == n \notin DOMAIN labelDir

\* the label file called n has a data row without 5 fields
HasShortRow(n) ==
    /\ ~Absent(n)
    /\ \E r \in 1..Len(DataRows(labelDir[n])) : Len(DataRows(labelDir[n])[r]) # 5

\* the label file called n is there and reads through: it is not empty and
\* its data rows have 5 numeric fields each
ReadsThrough(n) ==
    /\ ~Absent(n)
    /\ labelDir[n].rows # <<>>
    /\ \A r \in 1..Len(DataRows(labelDir[n])) :
         /\ Len(DataRows(labelDir[n])[r]) = 5
         /\ \A j \in 1..5 : FloatOf(DataRows(labelDir[n])[r][j]) # <<>>

\* the boxes in the label file called n, when it reads through
BoxesOf(n) ==
    [r \in 1..Len(DataRows(labelDir[n])) |->
        [j \in 1..5 |-> FloatOf(DataRows(labelDir[n])[r][j])[1]]]

\* one entry per accepted image of the listing from position k on, in order,
\* the boxes taken from the label file that name gives for the image
RECURSIVE EntriesFrom(_, _)
EntriesFrom(k, name) ==
    IF k > Len(imageDir) THEN <<>>
    ELSE IF AcceptedAt(k)
         THEN <<<<PathStr(imageDir[k]), BoxesOf(name[imageDir[k]])>>>>
                \o EntriesFrom(k + 1, name)
         ELSE EntriesFrom(k + 1, name)

\* Fail-fast indexing in terms of a naming of the label files. No sample list
\* is exposed once construction has failed; a failure of indexing is at an
\* accepted file, the first of the listing whose label file does not read
\* through: FileNotFoundError exactly when that label file is absent, an
\* AssertionError only when it has a data row without 5 fields; construction
\* gets past no accepted file whose label file is absent or has such a row;
\* and when it completes the list is one (path, boxes) entry per accepted
\* file, in listing order, and none for the others.
FailFast(name) ==
    /\ dsPc = "failed" => self_samples = None
    /\ self_samples # None => dsPc = "ready"
    /\ dsPc = "failed" /\ dsErr # "ValueError:config" =>
         /\ cursor \in 1..Len(imageDir)
         /\ AcceptedAt(cursor)
         /\ ~ReadsThrough(name[imageDir[cursor]])
         /\ \A k \in 1..(cursor - 1) : AcceptedAt(k) => ReadsThrough(name[imageDir[k]])
         /\ Absent(name[imageDir[cursor]]) <=> dsErr = "FileNotFoundError"
         /\ dsErr = "AssertionError" => HasShortRow(name[imageDir[cursor]])
    /\ dsPc = "indexing" =>
         \A k \in 1..cursor : AcceptedAt(k) =>
             ~Absent(name[imageDir[k]]) /\ ~HasShortRow(name[imageDir[k]])
    /\ dsPc = "ready" =>
         /\ \A k \in 1..Len(imageDir) : AcceptedAt(k) =>
              ~Absent(name[imageDir[k]]) /\ ~HasShortRow(name[imageDir[k]])
         /\ dsErr = "none"
         /\ self_samples = Some(EntriesFrom(1, name))
         /\ Len(self_samples[1]) = Cardinality({k \in 1..Len(imageDir) : AcceptedAt(k)})

\* Fail-fast indexing holds with the label file of an image taken to be the
\* file the code opens for it.
FailFastOnOpenedFile == FailFast(OpenedLabel)

\* C12: indexing is fail-fast: if the matching label file (same stem, .csv) of
\* an accepted image is absent or has a data row without 5 fields,
\* construction aborts with an error at that file and no sample list is
\* exposed; when there is no such failure the sample list is one
\* (path, boxes) entry per accepted image, in listing order, and none for the
\* rejected files.
C12_FailFast == FailFast(MatchingLabel)

\* ---- the name of the label file
\* the accepted file names among the first k of the listing, in order
RECURSIVE AcceptedUpTo(_)
AcceptedUpTo(k) ==
    IF k = 0 THEN <<>>
    ELSE IF AcceptedAt(k) THEN Append(AcceptedUpTo(k - 1), imageDir[k])
         ELSE AcceptedUpTo(k - 1)

\* C13: for every accepted image the label file opened is the image's stem
\* (the name without its final extension) followed by ".csv", also when the
\* text of the extension occurs elsewhere in the name ("a.png_1.png" opens
\* "a.png_1.csv"), and images with different stems open different files.
C13_LabelName ==
    LET acc == AcceptedUpTo(cursor)
    IN  /\ Len(opened) = Len(acc)
        /\ \A i \in 1..Len(acc) :
             /\ opened[i] = Stem(acc[i]) \o CsvExt
             /\ acc[i] = <<"a", ".", "p", "n", "g", "_", "1", ".", "p", "n", "g">> =>
                  opened[i] = <<"a", ".", "p", "n", "g", "_", "1", ".", "c", "s", "v">>
        /\ \A i, j \in 1..Len(acc) :
             Stem(acc[i]) # Stem(acc[j]) => opened[i] # opened[j]
====
